---- MODULE Spec2Model ----
(***************************************************************************)
(* Model of the voxel sub-package of idefix (src/idefix/vxl.py): grid      *)
(* construction (get_grid), binning (bin) and flattening (squash).         *)
(*                                                                         *)
(* Numbers.  Coordinates and steps are drawn from the integer lattice, on  *)
(* which the float arithmetic of the source is exact.  A value that the    *)
(* source computes by a division (a mean) is an exact fraction <<num,den>> *)
(* in lowest terms with den > 0.                                           *)
(*                                                                         *)
(* Optional values.  Python's None is the empty tuple, a present value v   *)
(* is the one-element tuple <<v>>.                                         *)
(***************************************************************************)
EXTENDS Integers, Sequences, FiniteSets, TLC

VARIABLES spatial, feature, step, grid, method, vxl, squash_method, axis,
          raster, mem_limit, limit_bytes, mem_usage, err, pc

vars ==
    <<spatial, feature, step, grid, method, vxl, squash_method, axis, raster,
      mem_limit, limit_bytes, mem_usage, err, pc>>

\* the argument, the local variable and the result of insight
memvars == <<mem_limit, limit_bytes, mem_usage>>

(***************************************************************************)
(* Bounds of the model.                                                    *)
(***************************************************************************)
\* the coordinates of a point: x is drawn from 0..MaxX, y from {0, MaxY}
\* (the south and the north border) and z from 0..MaxZ
MaxX == 1
MaxY == 2
MaxZ == 3
\* a point set holds 1..MaxPts points
MaxPts == 3
\* positive steps are drawn from 1..MaxStep
MaxStep == 2
\* feature values are drawn from 1..MaxFeat
MaxFeat == 2
\* arrays given to the coordinate transforms: every side in 0..MaxSide, at
\* most MaxCells cells, every cell masked or a value of 0..MaxVal
MaxSide == 3
MaxCells == 6
MaxVal == 1
\* a size string holds at most MaxStrLen characters
MaxStrLen == 4
\* numeric memory limits are drawn from 0..MaxLimit (bytes)
MaxLimit == 34
\* the grids given to insight have 1 or MaxBins bins on an axis, or BigBins
\* bins on every axis (a trillion cells)
MaxBins == 3
BigBins == 10000

\* dimensionality of the point clouds of the package: (x, y, z)
Dim == 3
\* rows of a bounding box array: the lower and the upper point
BBoxRows == 2

(***************************************************************************)
(* Python values.                                                          *)
(***************************************************************************)
None == <<>>

Some(v) == <<v>>

\* Python truth value of a number or None: None and 0 are false.
Truthy(s) == s # None /\ s[1] # 0

Abs(a) == IF a < 0 THEN -a ELSE a

\* np.trunc(a / b): the quotient rounded toward zero.
TruncDiv(a, b) ==
    IF (a >= 0) = (b > 0) THEN Abs(a) \div Abs(b) ELSE -(Abs(a) \div Abs(b))

SetMin(S) == CHOOSE x \in S : \A y \in S : x <= y

SetMax(S) == CHOOSE x \in S : \A y \in S : x >= y

\* spatial.shape[-1]
NDim(data) == Len(data[1])

(***************************************************************************)
(* utils.bbox: axis-wise minimum and maximum of the points.                *)
(***************************************************************************)
bbox(data) ==
    << [i \in 1..NDim(data) |-> SetMin({data[p][i] : p \in 1..Len(data)})],
       [i \in 1..NDim(data) |-> SetMax({data[p][i] : p \in 1..Len(data)})] >>

(***************************************************************************)
(* _ui_step.  A step argument is [seq |-> FALSE, v |-> s] for a scalar s   *)
(* (a number or None) and [seq |-> TRUE, v |-> <<s1, ..., sk>>] for an     *)
(* iterable.  Both failures are a ValueError; `kind' tells which raise.    *)
(***************************************************************************)
NoError == [type |-> "none", kind |-> "none"]

DimensionMismatch == [type |-> "ValueError", kind |-> "DimensionMismatch"]

InvalidStep == [type |-> "ValueError", kind |-> "InvalidStep"]

UiStepLengthMutant(st, n) ==
    LET out == IF st.seq THEN st.v ELSE [i \in 1..n |-> st.v]
    IN  IF \E i \in 1..Len(out) : Truthy(out[i]) /\ out[i][1] <= 0
        THEN [err |-> InvalidStep, out |-> <<>>]
        ELSE [err |-> NoError, out |-> out]

ui_step(st, n) ==
    IF st.seq /\ Len(st.v) # n
    THEN [err |-> DimensionMismatch, out |-> <<>>]
    ELSE LET out == IF st.seq THEN st.v ELSE [i \in 1..n |-> st.v]
         IN  IF \E i \in 1..n : Truthy(out[i]) /\ out[i][1] <= 0
             THEN [err |-> InvalidStep, out |-> <<>>]
             ELSE [err |-> NoError, out |-> out]

(***************************************************************************)
(* np.linspace(start, stop, num): num samples, the k-th (from 0) being     *)
(* start + k * (stop - start) / (num - 1); a single sample is start.       *)
(***************************************************************************)
linspace(start, stop, num) ==
    [k \in 1..num |->
        IF num = 1 THEN start
        ELSE start + ((k - 1) * (stop - start)) \div (num - 1)]

\* the number of bins of a divided axis
BinCountRoundUpMutant(a_min, a_max, a_s) ==
    (a_max - a_min + a_s - 1) \div a_s

BinCount(a_min, a_max, a_s) == TruncDiv(a_max - a_min, a_s)

\* the edges of one axis: the body of the loop of get_grid
AxisEdgesNoSplitMutant(a_min, a_max, a_s) ==
    IF Truthy(a_s)
    THEN LET bins == BinCount(a_min, a_max, a_s[1])
         IN  linspace(a_min, a_min + bins * a_s[1], bins + 1)
    ELSE <<a_min, a_max>>

AxisEdgesOneMoreMutant(a_min, a_max, a_s) ==
    IF Truthy(a_s)
    THEN LET bins == BinCount(a_min, a_max, a_s[1]) + 1
         IN  linspace(a_min, a_min + bins * a_s[1], bins + 1)
    ELSE <<a_min, a_max + 1>>

AxisEdges(a_min, a_max, a_s) ==
    IF Truthy(a_s)
    THEN LET bins == BinCount(a_min, a_max, a_s[1])
         IN  linspace(a_min, a_min + bins * a_s[1], bins + 1)
    ELSE <<a_min, a_max + 1>>

(***************************************************************************)
(* get_grid(spatial, step): [err, grid]; no grid is returned on failure.   *)
(***************************************************************************)
\* zip(bb[0], bb[1], step) stops at the shortest of its arguments
ZipLen(bb, out) == IF Len(out) < Len(bb[1]) THEN Len(out) ELSE Len(bb[1])

get_grid(data, st) ==
    LET bb == bbox(data)
        us == ui_step(st, NDim(data))
    IN  IF us.err # NoError
        THEN [err |-> us.err, grid |-> None]
        ELSE [err |-> NoError,
              grid |-> Some([i \in 1..ZipLen(bb, us.out) |->
                                AxisEdges(bb[1][i], bb[2][i], us.out[i])])]

(***************************************************************************)
(* Numbers that a division produces: fractions <<num, den>> in lowest      *)
(* terms, den > 0.                                                         *)
(***************************************************************************)
RECURSIVE GCD(_, _)
GCD(a, b) == IF b = 0 THEN a ELSE GCD(b, a % b)

Frac(n, d) ==
    LET g == GCD(Abs(n), Abs(d))
        sg == IF d < 0 THEN -1 ELSE 1
    IN  <<(sg * n) \div g, (sg * d) \div g>>

Num(n) == <<n, 1>>

\* conversion of a float to an integer dtype: the fraction part is dropped
ToInt(q) == Num(TruncDiv(q[1], q[2]))

\* array.astype(dtype) of one value
Cast(q, dtype) == IF dtype = "int" THEN ToInt(q) ELSE q

(***************************************************************************)
(* Arrays.  An n-dimensional array is [shape, data], data being a function *)
(* of the index tuples (from 0) of the shape; a masked array has a mask of *)
(* the same shape beside it (TRUE: no data).                               *)
(***************************************************************************)
Idx(shape) ==
    IF \E a \in 1..Len(shape) : shape[a] = 0
    THEN {}
    ELSE {ix \in [1..Len(shape) -> 0..(SetMax({shape[a] : a \in 1..Len(shape)}) - 1)] :
            \A a \in 1..Len(shape) : ix[a] < shape[a]}

\* one cell per edge
GridShapeEdgeCountMutant(edges) == [i \in 1..Len(edges) |-> Len(edges[i])]

\* [len(x) - 1 for x in grid]
GridShape(edges) == [i \in 1..Len(edges) |-> Len(edges[i]) - 1]

RECURSIVE SumOver(_, _)
\* the sum of w[p] over the indices p of S
SumOver(S, w) ==
    IF S = {} THEN 0
    ELSE LET p == CHOOSE x \in S : TRUE
         IN  w[p] + SumOver(S \ {p}, w)

(***************************************************************************)
(* np.histogramdd(sample, bins, weights) with explicit bin edges.  Each    *)
(* axis has len(edges) + 1 bins, the first and the last being the outliers *)
(* below and above the edges.  np.searchsorted(edges, x, side='right') is  *)
(* the number of edges <= x, and a sample equal to the last edge is        *)
(* shifted one bin to the left, into the last bin of the edges.  The       *)
(* histogram returned is the core without the outlier bins: cell c (from   *)
(* 0) of an axis is searchsorted bin c + 1.  The grids passed here are     *)
(* those of get_grid for points of the same dimension, so the edges are    *)
(* monotonic and there is one edge array per dimension.                    *)
(***************************************************************************)
SearchSortedRight(e, x) == Cardinality({k \in 1..Len(e) : e[k] <= x})

BinIndexHalfOpenMutant(e, x) == SearchSortedRight(e, x)

BinIndex(e, x) ==
    SearchSortedRight(e, x) - (IF x = e[Len(e)] THEN 1 ELSE 0)

\* the core cell (from 0 on every axis) of a point; an outlier has a
\* coordinate -1 or len(edges) - 1
CellOf(edges, p) == [i \in 1..Len(edges) |-> BinIndex(edges[i], p[i]) - 1]

\* weights: None (every sample counts 1) or a sequence of one weight per
\* sample
histogramdd(sample, edges, weights) ==
    LET w == IF weights = None THEN [p \in 1..Len(sample) |-> 1] ELSE weights[1]
    IN  [shape |-> GridShape(edges),
         data |-> [c \in Idx(GridShape(edges)) |->
                    SumOver({p \in 1..Len(sample) : CellOf(edges, sample[p]) = c}, w)]]

(***************************************************************************)
(* _bin_density: the histogram, masked where it is 0.                      *)
(***************************************************************************)
bin_density(edges, sample) ==
    LET density == histogramdd(sample, edges, None)
    IN  [shape |-> density.shape,
         data |-> [c \in Idx(density.shape) |-> Num(density.data[c])],
         mask |-> [c \in Idx(density.shape) |-> density.data[c] = 0]]

(***************************************************************************)
(* _bin_mean: np.divide(weightd, density, where=~mask) writes the quotient *)
(* where the density is not 0 and leaves the other cells of its fresh      *)
(* output as allocated: `junk' is what those cells happen to hold.  The    *)
(* result is converted to the dtype of the feature.                        *)
(***************************************************************************)
bin_mean(edges, sample, feat, junk) ==
    LET density == histogramdd(sample, edges, None)
        weightd == histogramdd(sample, edges, Some(feat.v))
    IN  [shape |-> density.shape,
         data |-> [c \in Idx(density.shape) |->
                    Cast(IF density.data[c] = 0 THEN junk
                         ELSE Frac(weightd.data[c], density.data[c]),
                         feat.dtype)],
         mask |-> [c \in Idx(density.shape) |-> density.data[c] = 0]]

(***************************************************************************)
(* _bin_mode: one density histogram per distinct feature value, in the     *)
(* ascending order of np.unique; a value takes a cell when its score is    *)
(* strictly greater than the best score so far.                            *)
(***************************************************************************)
RECURSIVE SortedSeq(_)
\* the elements of a set of integers in ascending order
SortedSeq(S) ==
    IF S = {} THEN <<>>
    ELSE <<SetMin(S)>> \o SortedSeq(S \ {SetMin(S)})

\* np.unique(feature)
unique(v) == SortedSeq({v[p] : p \in 1..Len(v)})

\* spatial[np.argwhere(feature == value).reshape(-1)]
SelectRows(sample, v, value) ==
    LET F[p \in 0..Len(sample)] ==
            IF p = 0 THEN <<>>
            ELSE IF v[p] = value THEN Append(F[p - 1], sample[p]) ELSE F[p - 1]
    IN  F[Len(sample)]

\* winner = score > max_score
WinnerTiesMutant(score, best) == score >= best

Winner(score, best) == score > best

RECURSIVE ModeLoop(_, _, _, _, _, _)
\* the loop over values[i..]: max_score and max_value after the last value
ModeLoop(edges, sample, feat, values, i, acc) ==
    IF i > Len(values) THEN acc
    ELSE LET score == bin_density(edges, SelectRows(sample, feat.v, values[i]))
             win == [c \in Idx(score.shape) |->
                        Winner(score.data[c][1], acc.max_score[c])]
         IN  ModeLoop(edges, sample, feat, values, i + 1,
                 [max_score |-> [c \in Idx(score.shape) |->
                                    IF win[c] THEN score.data[c][1]
                                    ELSE acc.max_score[c]],
                  max_value |-> [c \in Idx(score.shape) |->
                                    IF win[c] THEN values[i]
                                    ELSE acc.max_value[c]]])

bin_mode(edges, sample, feat) ==
    LET shape == GridShape(edges)
        zeros == [c \in Idx(shape) |-> 0]
        r == ModeLoop(edges, sample, feat, unique(feat.v), 1,
                      [max_score |-> zeros, max_value |-> zeros])
    IN  [shape |-> shape,
         data |-> [c \in Idx(shape) |-> Num(r.max_value[c])],
         mask |-> [c \in Idx(shape) |-> r.max_score[c] = 0]]

(***************************************************************************)
(* _geo_to_np_coordinate: np.flip(np.swapaxes(raster, 0, 1), 0), of the    *)
(* data and of the mask.  swapaxes gives b[j, i, ..] = a[i, j, ..]; flip   *)
(* gives c[j, i, ..] = b[ny - 1 - j, i, ..].                               *)
(***************************************************************************)
SwapShape(shape) ==
    [a \in 1..Len(shape) |->
        IF a = 1 THEN shape[2] ELSE IF a = 2 THEN shape[1] ELSE shape[a]]

\* the index of the argument read for index ix of the result
GeoSourceNoFlipMutant(shape, ix) ==
    [a \in 1..Len(shape) |->
        IF a = 1 THEN ix[2] ELSE IF a = 2 THEN ix[1] ELSE ix[a]]

\* the second axis of the result reversed instead of the first
GeoSourceFlipSecondMutant(shape, ix) ==
    [a \in 1..Len(shape) |->
        IF a = 1 THEN shape[1] - 1 - ix[2]
        ELSE IF a = 2 THEN ix[1]
        ELSE ix[a]]

GeoSource(shape, ix) ==
    [a \in 1..Len(shape) |->
        IF a = 1 THEN ix[2]
        ELSE IF a = 2 THEN shape[2] - 1 - ix[1]
        ELSE ix[a]]

\* the array returned as computed, in geographic order
GeoToNpIdentityMutant(r) == r

geo_to_np_coordinate(r) ==
    [shape |-> SwapShape(r.shape),
     data |-> [ix \in Idx(SwapShape(r.shape)) |-> r.data[GeoSource(r.shape, ix)]],
     mask |-> [ix \in Idx(SwapShape(r.shape)) |-> r.mask[GeoSource(r.shape, ix)]]]

(***************************************************************************)
(* _np_to_geo_coordinate: np.swapaxes(np.flip(raster, 0), 1, 0), the first *)
(* axis reversed, then the first two axes swapped.                         *)
(***************************************************************************)
\* the index of the argument read for index ix of the result
NpSource(shape, ix) ==
    [a \in 1..Len(shape) |->
        IF a = 1 THEN shape[1] - 1 - ix[2]
        ELSE IF a = 2 THEN ix[1]
        ELSE ix[a]]

\* the transform to storage order applied in both directions
NpToGeoForwardMutant(r) ==
    [shape |-> SwapShape(r.shape),
     data |-> [ix \in Idx(SwapShape(r.shape)) |-> r.data[GeoSource(r.shape, ix)]],
     mask |-> [ix \in Idx(SwapShape(r.shape)) |-> r.mask[GeoSource(r.shape, ix)]]]

np_to_geo_coordinate(r) ==
    [shape |-> SwapShape(r.shape),
     data |-> [ix \in Idx(SwapShape(r.shape)) |-> r.data[NpSource(r.shape, ix)]],
     mask |-> [ix \in Idx(SwapShape(r.shape)) |-> r.mask[NpSource(r.shape, ix)]]]

(***************************************************************************)
(* bin(grid, spatial, feature, method): [err, vxl].                        *)
(***************************************************************************)
MissingFeature == [type |-> "ValueError", kind |-> "MissingFeature"]

UnsupportedMethod == [type |-> "NotImplementedError", kind |-> "UnsupportedMethod"]

\* the feature vector once bin has returned: np.unique works on a sorted
\* copy, feature == value and spatial[mask] build new arrays, and the scores
\* are written into max_score and max_value, which _bin_mode allocates
feature_after(feat, meth) == feat

\* the method looked at before the feature
BinMethodFirstMutant(edges, sample, feat, meth, junk) ==
    IF meth \notin {"density", "mean", "mode"}
    THEN [err |-> UnsupportedMethod, vxl |-> None, feature |-> feat]
    ELSE IF meth # "density" /\ feat.dtype = "none"
    THEN [err |-> MissingFeature, vxl |-> None, feature |-> feat]
    ELSE [err |-> NoError,
          vxl |-> Some(geo_to_np_coordinate(
                      IF meth = "density" THEN bin_density(edges, sample)
                      ELSE IF meth = "mean" THEN bin_mean(edges, sample, feat, junk)
                      ELSE bin_mode(edges, sample, feat))),
          feature |-> feature_after(feat, meth)]

bin(edges, sample, feat, meth, junk) ==
    IF meth = "density"
    THEN [err |-> NoError,
          vxl |-> Some(geo_to_np_coordinate(bin_density(edges, sample))),
          feature |-> feat]
    ELSE IF feat.dtype = "none"
    THEN [err |-> MissingFeature, vxl |-> None, feature |-> feat]
    ELSE IF meth = "mean"
    THEN [err |-> NoError,
          vxl |-> Some(geo_to_np_coordinate(bin_mean(edges, sample, feat, junk))),
          feature |-> feat]
    ELSE IF meth = "mode"
    THEN [err |-> NoError,
          vxl |-> Some(geo_to_np_coordinate(bin_mode(edges, sample, feat))),
          feature |-> feature_after(feat, meth)]
    ELSE [err |-> UnsupportedMethod, vxl |-> None, feature |-> feat]

(***************************************************************************)
(* Arithmetic of fractions.                                                *)
(***************************************************************************)
FAdd(a, b) == Frac(a[1] * b[2] + b[1] * a[2], a[2] * b[2])

FSub(a, b) == Frac(a[1] * b[2] - b[1] * a[2], a[2] * b[2])

FMul(a, b) == Frac(a[1] * b[1], a[2] * b[2])

FDivInt(a, n) == Frac(a[1], a[2] * n)

FLeq(a, b) == a[1] * b[2] <= b[1] * a[2]

RECURSIVE FSum(_)
\* the sum of a sequence of fractions
FSum(q) == IF q = <<>> THEN Num(0) ELSE FAdd(q[1], FSum(Tail(q)))

RECURSIVE FSort(_)
\* a sequence of fractions in ascending order
FSort(q) ==
    IF q = <<>> THEN <<>>
    ELSE LET m == CHOOSE k \in 1..Len(q) : \A j \in 1..Len(q) : FLeq(q[k], q[j])
         IN  <<q[m]>> \o FSort([j \in 1..(Len(q) - 1) |-> IF j < m THEN q[j] ELSE q[j + 1]])

\* the median of a non-empty sequence: the middle value, or the mean of
\* the two middle values
FMedian(q) ==
    LET srt == FSort(q)
        n == Len(q)
    IN  IF n % 2 = 1 THEN srt[(n + 1) \div 2]
        ELSE FDivInt(FAdd(srt[n \div 2], srt[n \div 2 + 1]), 2)

FMean(q) == FDivInt(FSum(q), Len(q))

\* the mean of the squared deviations from the mean
FVariance(q) ==
    FMean([k \in 1..Len(q) |-> FMul(FSub(q[k], FMean(q)), FSub(q[k], FMean(q)))])

(***************************************************************************)
(* squash(voxel_grid, method, axis): [err, raster].  A raster is [shape,   *)
(* data, mask, masked, root]: `masked' tells a masked array from a plain   *)
(* array (whose mask is FALSE everywhere), `root' that the values are the  *)
(* square roots of the fractions held in data (method 'std').  The data of *)
(* a masked cell of a reduction is held as 0.                              *)
(***************************************************************************)
\* axis as an index from 1: Python's axis -1 is the last axis
AxisOf(v, ax) == (ax % Len(v.shape)) + 1

RemoveAt(q, a) == [k \in 1..(Len(q) - 1) |-> IF k < a THEN q[k] ELSE q[k + 1]]

InsertAt(q, a, t) ==
    [k \in 1..(Len(q) + 1) |-> IF k < a THEN q[k] ELSE IF k = a THEN t ELSE q[k - 1]]

\* the indices along axis a of the non-masked voxels of column o
ValidIdx(v, a, o) == {t \in 0..(v.shape[a] - 1) : ~ v.mask[InsertAt(o, a, t)]}

\* the values of all the voxels of column o, masked or not
ValidValuesWholeColumnMutant(v, a, o) ==
    [k \in 1..v.shape[a] |-> v.data[InsertAt(o, a, k - 1)]]

\* the values of the non-masked voxels of column o, along the axis
ValidValues(v, a, o) ==
    LET ts == SortedSeq(ValidIdx(v, a, o))
    IN  [k \in 1..Len(ts) |-> v.data[InsertAt(o, a, ts[k])]]

\* top and bottom exchanged
SquashIdExchangedMutant(v, meth, a, o) ==
    IF meth = "top" THEN SetMin(ValidIdx(v, a, o))
    ELSE IF meth = "bottom" THEN SetMax(ValidIdx(v, a, o))
    ELSE LET ts == SortedSeq(ValidIdx(v, a, o))
         IN  ToInt(FMedian([k \in 1..Len(ts) |-> Num(ts[k])]))[1]

\* center taken as the middle of the axis
SquashIdAxisCenterMutant(v, meth, a, o) ==
    IF meth = "top" THEN SetMax(ValidIdx(v, a, o))
    ELSE IF meth = "bottom" THEN SetMin(ValidIdx(v, a, o))
    ELSE v.shape[a] \div 2

\* the median index rounded up instead of truncated
SquashIdRoundUpMutant(v, meth, a, o) ==
    IF meth = "top" THEN SetMax(ValidIdx(v, a, o))
    ELSE IF meth = "bottom" THEN SetMin(ValidIdx(v, a, o))
    ELSE LET ts == SortedSeq(ValidIdx(v, a, o))
             md == FMedian([k \in 1..Len(ts) |-> Num(ts[k])])
         IN  IF md[2] = 1 THEN md[1] ELSE ToInt(md)[1] + 1

\* squash_id of a column with valid voxels: the index selected by a
\* position method, converted to an unsigned integer
SquashId(v, meth, a, o) ==
    IF meth = "top" THEN SetMax(ValidIdx(v, a, o))
    ELSE IF meth = "bottom" THEN SetMin(ValidIdx(v, a, o))
    ELSE LET ts == SortedSeq(ValidIdx(v, a, o))
         IN  ToInt(FMedian([k \in 1..Len(ts) |-> Num(ts[k])]))[1]

\* max and min have no identity: the reduction of an axis of length 0 fails
ZeroSizeReduction == [type |-> "ValueError", kind |-> "ZeroSizeReduction"]

\* _squash_position: the voxel (value and mask) at the selected index of
\* every column with valid voxels; the other columns are masked
squash_position(v, meth, a) ==
    LET shape == RemoveAt(v.shape, a)
    IN  [shape |-> shape,
         data |-> [o \in Idx(shape) |->
                    IF ValidIdx(v, a, o) = {} THEN Num(0)
                    ELSE v.data[InsertAt(o, a, SquashId(v, meth, a, o))]],
         mask |-> [o \in Idx(shape) |->
                    IF ValidIdx(v, a, o) = {} THEN TRUE
                    ELSE v.mask[InsertAt(o, a, SquashId(v, meth, a, o))]],
         masked |-> TRUE,
         root |-> FALSE]

\* the count as a masked array, masked where it is 0
SquashCountMaskedMutant(v, a) ==
    LET shape == RemoveAt(v.shape, a)
    IN  [shape |-> shape,
         data |-> [o \in Idx(shape) |-> Num(Cardinality(ValidIdx(v, a, o)))],
         mask |-> [o \in Idx(shape) |-> ValidIdx(v, a, o) = {}],
         masked |-> TRUE,
         root |-> FALSE]

\* np.sum(~voxel_grid.mask, axis=axis): a plain array
squash_count(v, a) ==
    LET shape == RemoveAt(v.shape, a)
    IN  [shape |-> shape,
         data |-> [o \in Idx(shape) |-> Num(Cardinality(ValidIdx(v, a, o)))],
         mask |-> [o \in Idx(shape) |-> FALSE],
         masked |-> FALSE,
         root |-> FALSE]

\* the reductions of the masked array: mean, median, min, max, std
Reduce(meth, q) ==
    IF meth = "mean" THEN FMean(q)
    ELSE IF meth = "median" THEN FMedian(q)
    ELSE IF meth = "min" THEN FSort(q)[1]
    ELSE IF meth = "max" THEN FSort(q)[Len(q)]
    ELSE FVariance(q)

squash_reduce(v, meth, a) ==
    LET shape == RemoveAt(v.shape, a)
    IN  [shape |-> shape,
         data |-> [o \in Idx(shape) |->
                    IF ValidIdx(v, a, o) = {} THEN Num(0)
                    ELSE Reduce(meth, ValidValues(v, a, o))],
         mask |-> [o \in Idx(shape) |-> ValidIdx(v, a, o) = {}],
         masked |-> TRUE,
         root |-> meth = "std"]

\* _squash_position writing the positions into the voxel grid itself
SquashMaskInPlaceMutant(v, a) ==
    [v EXCEPT !.data = [ix \in Idx(v.shape) |->
                           IF v.mask[ix] THEN v.data[ix] ELSE Num(ix[a])]]

\* the voxel grid once _squash_position has returned: the positions are
\* written into squash_mask and the picked values into raster, both arrays
\* of their own made by np.zeros_like
voxel_grid_after(v, a) == v

squash(v, meth, ax) ==
    IF meth \in {"top", "bottom", "min", "max"} /\ v.shape[AxisOf(v, ax)] = 0
    THEN [err |-> ZeroSizeReduction, raster |-> None, voxel_grid |-> v]
    ELSE IF meth \in {"top", "center", "bottom"}
    THEN [err |-> NoError, raster |-> Some(squash_position(v, meth, AxisOf(v, ax))),
          voxel_grid |-> voxel_grid_after(v, AxisOf(v, ax))]
    ELSE IF meth = "count"
    THEN [err |-> NoError, raster |-> Some(squash_count(v, AxisOf(v, ax))),
          voxel_grid |-> v]
    ELSE IF meth \in {"mean", "median", "min", "max", "std"}
    THEN [err |-> NoError, raster |-> Some(squash_reduce(v, meth, AxisOf(v, ax))),
          voxel_grid |-> v]
    ELSE [err |-> UnsupportedMethod, raster |-> None, voxel_grid |-> v]

(***************************************************************************)
(* Byte counts.  The memory estimate of a large grid exceeds the integers  *)
(* of the model checker, so a byte count is a natural number written in    *)
(* base 2^15, least significant digit first, without leading zero digits   *)
(* (0 is the empty sequence).                                              *)
(***************************************************************************)
Base == 2 ^ 15

RECURSIVE BigOf(_)
\* the byte count of a natural number n
BigOf(n) == IF n = 0 THEN <<>> ELSE <<n % Base>> \o BigOf(n \div Base)

RECURSIVE MulCarry(_, _, _)
MulCarry(b, k, carry) ==
    IF b = <<>> THEN BigOf(carry)
    ELSE <<(b[1] * k + carry) % Base>>
            \o MulCarry(Tail(b), k, (b[1] * k + carry) \div Base)

\* b * k for a natural number k < Base
BigMul(b, k) == IF k = 0 THEN <<>> ELSE MulCarry(b, k, 0)

\* a > b
BigGreater(a, b) ==
    IF Len(a) # Len(b) THEN Len(a) > Len(b)
    ELSE \E i \in 1..Len(a) :
            /\ a[i] > b[i]
            /\ \A j \in (i + 1)..Len(a) : a[j] = b[j]

(***************************************************************************)
(* _human_to_bytes.  A string is the sequence of its characters.           *)
(***************************************************************************)
DigitChars == <<"0", "1", "2", "3", "4", "5", "6", "7", "8", "9">>

IsDigit(c) == \E d \in 1..Len(DigitChars) : DigitChars[d] = c

DigitValue(c) == (CHOOSE d \in 1..Len(DigitChars) : DigitChars[d] = c) - 1

\* str.endswith
EndsWith(str, k) ==
    /\ Len(str) >= Len(k)
    /\ SubSeq(str, Len(str) - Len(k) + 1, Len(str)) = k

RECURSIVE LStrip(_, _)
LStrip(str, chars) ==
    IF str # <<>> /\ str[1] \in chars THEN LStrip(Tail(str), chars) ELSE str

RECURSIVE RStrip(_, _)
RStrip(str, chars) ==
    IF str # <<>> /\ str[Len(str)] \in chars
    THEN RStrip(SubSeq(str, 1, Len(str) - 1), chars)
    ELSE str

\* str.strip(chars): the characters of chars removed from both ends
Strip(str, chars) == RStrip(LStrip(str, chars), chars)

Chars(k) == {k[i] : i \in 1..Len(k)}

RECURSIVE Decimal(_)
\* the value of a sequence of digits
Decimal(ds) ==
    IF ds = <<>> THEN 0
    ELSE Decimal(SubSeq(ds, 1, Len(ds) - 1)) * 10 + DigitValue(ds[Len(ds)])

FloatParseError == [type |-> "ValueError", kind |-> "FloatParse"]

MalformedSizeString == [type |-> "IOError", kind |-> "MalformedSizeString"]

\* float(str), on strings of digits, letters and spaces: surrounding
\* whitespace is ignored, what remains must be a number
ParseFloat(str) ==
    LET t == Strip(str, {" "})
    IN  IF t # <<>> /\ \A i \in 1..Len(t) : IsDigit(t[i])
        THEN [err |-> NoError, v |-> Decimal(t)]
        ELSE [err |-> FloatParseError, v |-> 0]

\* bytes_count = {'KB': 1, 'MB': 2, 'GB': 3}
bytes_count == <<[k |-> <<"K", "B">>, v |-> 1],
                 [k |-> <<"M", "B">>, v |-> 2],
                 [k |-> <<"G", "B">>, v |-> 3]>>

RECURSIVE Times1024(_, _)
\* b * 1024 ** v
Times1024(b, v) == IF v = 0 THEN b ELSE Times1024(BigMul(b, 1024), v - 1)

RECURSIVE HumanLoop(_, _)
HumanLoop(human_size, i) ==
    IF i > Len(bytes_count)
    THEN [err |-> MalformedSizeString, bytes |-> None]
    ELSE IF EndsWith(human_size, bytes_count[i].k)
    THEN LET f == ParseFloat(Strip(human_size, Chars(bytes_count[i].k)))
         IN  IF f.err # NoError THEN [err |-> f.err, bytes |-> None]
             ELSE [err |-> NoError,
                   bytes |-> Some(Times1024(BigOf(f.v), bytes_count[i].v))]
    ELSE HumanLoop(human_size, i + 1)

human_to_bytes(human_size) == HumanLoop(human_size, 1)

(***************************************************************************)
(* insight(grid, method, mem_limit): [err, limit, mem_usage].  insight     *)
(* reads of the grid the sizes of its edge arrays only; sizes[i] is the    *)
(* number of edges of axis i.  limit is the local mem_limit after the      *)
(* conversion of a string.                                                 *)
(***************************************************************************)
\* [x.size for x in grid]
EdgeCounts(edges) == [i \in 1..Len(edges) |-> Len(edges[i])]

RECURSIVE bin_insight(_)
\* np.prod([x.size - 1 for x in grid])
bin_insight(sizes) ==
    IF sizes = <<>> THEN BigOf(1)
    ELSE BigMul(bin_insight(Tail(sizes)), sizes[1] - 1)

\* np.dtype(float).itemsize, np.dtype(np.bool).itemsize
FloatSize == 8
BoolSize == 1

SetMax2(a, b) == IF a >= b THEN a ELSE b

bin_density_insight(sizes) ==
    BigMul(bin_insight(sizes), FloatSize + FloatSize + BoolSize)

bin_mean_insight(sizes) ==
    BigMul(bin_insight(sizes), FloatSize + FloatSize + BoolSize + FloatSize + FloatSize)

bin_mode_insight(sizes) ==
    BigMul(bin_insight(sizes),
           FloatSize + FloatSize + SetMax2(FloatSize + BoolSize, FloatSize + BoolSize))

NoLimit == [type |-> "none", n |-> 0, s |-> <<>>]

NumberLimit(n) == [type |-> "number", n |-> n, s |-> <<>>]

StrLimit(str) == [type |-> "str", n |-> 0, s |-> str]

WrongMethod == [type |-> "IOError", kind |-> "WrongMethod"]

MemoryBudgetExceeded == [type |-> "MemoryError", kind |-> "MemoryBudgetExceeded"]

\* `if mem_limit`: the truth value of the converted limit
LimitTruthy(lim) == lim[1] # <<>>

\* lines 242-243: the limit in bytes, None when no limit is given
ConvertLimit(lim) ==
    IF lim.type = "none" THEN [err |-> NoError, bytes |-> None]
    ELSE IF lim.type = "str" THEN human_to_bytes(lim.s)
    ELSE [err |-> NoError, bytes |-> Some(BigOf(lim.n))]

\* lines 245-252
Estimate(sizes, meth) ==
    IF meth = "density" THEN bin_density_insight(sizes)
    ELSE IF meth = "mean" THEN bin_mean_insight(sizes)
    ELSE bin_mode_insight(sizes)

insight(sizes, meth, lim) ==
    LET c == ConvertLimit(lim)
    IN  IF c.err # NoError
        THEN [err |-> c.err, limit |-> None, mem_usage |-> None]
        ELSE IF meth \notin {"density", "mean", "mode"}
        THEN [err |-> WrongMethod, limit |-> c.bytes, mem_usage |-> None]
        ELSE IF /\ c.bytes # None
                /\ LimitTruthy(c.bytes)
                /\ BigGreater(Estimate(sizes, meth), c.bytes[1])
        THEN [err |-> MemoryBudgetExceeded, limit |-> c.bytes, mem_usage |-> None]
        ELSE [err |-> NoError, limit |-> c.bytes, mem_usage |-> Some(Estimate(sizes, meth))]

(***************************************************************************)
(* Inputs.                                                                 *)
(***************************************************************************)
AxisCoords == <<0..MaxX, {0, MaxY}, 0..MaxZ>>

\* the points of n dimensions: the first n axes of (x, y, z)
Points(n) ==
    {p \in [1..n -> 0..SetMax({MaxX, MaxY, MaxZ})] :
        \A i \in 1..n : p[i] \in AxisCoords[i]}

\* lexicographic order of two points
LexLeq(p, q) ==
    \A i \in 1..Len(p) : (\A j \in 1..(i - 1) : p[j] = q[j]) => p[i] <= q[i]

\* the point sets of 1..m points of n dimensions, one listing per multiset
\* of points (the rows in lexicographic order)
PointSets(n, m) ==
    {s \in UNION {[1..k -> Points(n)] : k \in 1..m} :
        \A r \in 1..(Len(s) - 1) : LexLeq(s[r], s[r + 1])}

\* a step value: None, or a number of -1..MaxStep
StepValues == {None} \cup {Some(v) : v \in -1..MaxStep}

\* a step argument: a scalar, or a sequence of Dim-1 or Dim step values
StepArgs ==
    {[seq |-> FALSE, v |-> s] : s \in StepValues}
    \cup {[seq |-> TRUE, v |-> q] :
            q \in [1..(Dim - 1) -> StepValues] \cup [1..Dim -> StepValues]}

NoFeature == [dtype |-> "none", v |-> <<>>]

NoStep == [seq |-> FALSE, v |-> None]

(***************************************************************************)
(* The caller of get_grid: a bounding box or a set of one or two points,   *)
(* of 2 or 3 dimensions, is gridded with any step argument.                *)
(***************************************************************************)
GridInit ==
    /\ spatial \in PointSets(Dim - 1, BBoxRows) \cup PointSets(Dim, BBoxRows)
    /\ feature = NoFeature
    /\ step = NoStep
    /\ grid = None
    /\ method = ""
    /\ squash_method = ""
    /\ vxl = None
    /\ axis = 0
    /\ raster = None
    /\ mem_limit = NoLimit
    /\ limit_bytes = None
    /\ mem_usage = None
    /\ err = NoError
    /\ pc = "start"

GetGrid(st) ==
    /\ pc = "start"
    /\ LET r == get_grid(spatial, st)
       IN  /\ grid' = r.grid
           /\ err' = r.err
           /\ pc' = IF r.err = NoError THEN "gridded" ELSE "failed"
    /\ step' = st
    /\ UNCHANGED <<spatial, feature, method, vxl, squash_method, axis, raster, memvars>>

GridNext == \E st \in StepArgs : GetGrid(st)

SpecGrid == GridInit /\ [][GridNext]_vars

(***************************************************************************)
(* The caller of bin: a point set of 3 dimensions is gridded with a valid  *)
(* step, and the points are binned in that grid with any feature and       *)
(* method.                                                                 *)
(***************************************************************************)
\* the steps of the grids that are binned: the scalar 1, or resolution 1 on
\* x and y with the z axis undivided or divided by a coarser step
BinStepArgs ==
    {[seq |-> FALSE, v |-> Some(1)]}
    \cup {[seq |-> TRUE, v |-> <<Some(1), Some(1), c>>] :
            c \in {None} \cup {Some(s) : s \in 2..MaxStep}}

\* a feature vector of m values, of an integer or a float dtype, or None
Features(m) ==
    {NoFeature}
    \cup {[dtype |-> d, v |-> f] : d \in {"int", "float"}, f \in [1..m -> 1..MaxFeat]}

\* the methods of bin, and one it does not have
BinMethods == {"density", "mean", "mode", "median"}

\* what the cells that np.divide does not write may hold
Junk == {Num(0), Frac(-3, 2)}

BinInit ==
    /\ spatial \in PointSets(Dim, MaxPts)
    /\ feature = NoFeature
    /\ step = NoStep
    /\ grid = None
    /\ method = ""
    /\ squash_method = ""
    /\ vxl = None
    /\ axis = 0
    /\ raster = None
    /\ mem_limit = NoLimit
    /\ limit_bytes = None
    /\ mem_usage = None
    /\ err = NoError
    /\ pc = "start"

Bin(feat, meth, junk) ==
    /\ pc = "gridded"
    /\ LET r == bin(grid[1], spatial, feat, meth, junk)
       IN  /\ vxl' = r.vxl
           /\ feature' = r.feature
           /\ err' = r.err
           /\ pc' = IF r.err = NoError THEN "binned" ELSE "failed"
    /\ method' = meth
    /\ UNCHANGED <<spatial, step, grid, squash_method, axis, raster, memvars>>

BinNext ==
    \/ \E st \in BinStepArgs : GetGrid(st)
    \/ \E feat \in Features(Len(spatial)), meth \in BinMethods :
          \E junk \in (IF meth = "mean" THEN Junk ELSE {Num(0)}) :
              Bin(feat, meth, junk)

SpecBin == BinInit /\ [][BinNext]_vars

(***************************************************************************)
(* The coordinate transforms applied to arbitrary 2-D and 3-D arrays: vxl  *)
(* holds the array given, raster the result of the transforms applied so   *)
(* far, pc the transforms applied ("np": to storage order, "geo": to       *)
(* geographic order, "np_geo" and "geo_np": one after the other).          *)
(***************************************************************************)
RECURSIVE Product(_)
Product(shape) == IF shape = <<>> THEN 1 ELSE shape[1] * Product(Tail(shape))

\* the shapes of the 2-D and 3-D arrays
Shapes ==
    {sh \in [1..(Dim - 1) -> 0..MaxSide] \cup [1..Dim -> 0..MaxSide] :
        Product(sh) <= MaxCells}

\* a cell: masked, or a value of 0..MaxVal
CellValues == {[d |-> 0, m |-> TRUE]} \cup {[d |-> v, m |-> FALSE] : v \in 0..MaxVal}

Arrays ==
    UNION {{[shape |-> sh,
             data |-> [ix \in Idx(sh) |-> Num(c[ix].d)],
             mask |-> [ix \in Idx(sh) |-> c[ix].m]] :
              c \in [Idx(sh) -> CellValues]} : sh \in Shapes}

CoordInit ==
    /\ spatial = <<>>
    /\ feature = NoFeature
    /\ step = NoStep
    /\ grid = None
    /\ method = ""
    /\ squash_method = ""
    /\ vxl \in {Some(a) : a \in Arrays}
    /\ axis = 0
    /\ raster = None
    /\ mem_limit = NoLimit
    /\ limit_bytes = None
    /\ mem_usage = None
    /\ err = NoError
    /\ pc = "start"

\* the array the next transform is applied to
Current == IF pc = "start" THEN vxl[1] ELSE raster[1]

GeoToNp ==
    /\ pc \in {"start", "geo"}
    /\ raster' = Some(geo_to_np_coordinate(Current))
    /\ pc' = IF pc = "start" THEN "np" ELSE "geo_np"
    /\ UNCHANGED <<spatial, feature, step, grid, method, squash_method, vxl, axis, err, memvars>>

NpToGeo ==
    /\ pc \in {"start", "np"}
    /\ raster' = Some(np_to_geo_coordinate(Current))
    /\ pc' = IF pc = "start" THEN "geo" ELSE "np_geo"
    /\ UNCHANGED <<spatial, feature, step, grid, method, squash_method, vxl, axis, err, memvars>>

CoordNext == GeoToNp \/ NpToGeo

SpecCoord == CoordInit /\ [][CoordNext]_vars

(***************************************************************************)
(* insight alone.  The grid is given by the sizes of its edge arrays, the  *)
(* only thing insight reads of it.                                         *)
(***************************************************************************)
InsightGrids ==
    {Some(sz) : sz \in [1..Dim -> {2, MaxBins + 1}]}
    \cup {Some([i \in 1..Dim |-> BigBins + 1])}

\* the characters of the size strings
Alphabet == {"0", "1", "K", "M", "G", "B", " ", "x"}

Strings == UNION {[1..n -> Alphabet] : n \in 0..MaxStrLen}

MemLimits ==
    {NoLimit} \cup {NumberLimit(n) : n \in 0..MaxLimit} \cup {StrLimit(str) : str \in Strings}

InsightInit ==
    /\ spatial = <<>>
    /\ feature = NoFeature
    /\ step = NoStep
    /\ grid \in InsightGrids
    /\ method = ""
    /\ squash_method = ""
    /\ vxl = None
    /\ axis = 0
    /\ raster = None
    /\ mem_limit = NoLimit
    /\ limit_bytes = None
    /\ mem_usage = None
    /\ err = NoError
    /\ pc = "start"

Insight(meth, lim) ==
    /\ pc = "start"
    /\ LET r == insight(grid[1], meth, lim)
       IN  /\ limit_bytes' = r.limit
           /\ mem_usage' = r.mem_usage
           /\ err' = r.err
           /\ pc' = IF r.err = NoError THEN "insight" ELSE "failed"
    /\ method' = meth
    /\ mem_limit' = lim
    /\ UNCHANGED <<spatial, feature, step, grid, vxl, squash_method, axis, raster>>

InsightNext ==
    /\ pc = "start"
    /\ \E meth \in BinMethods, lim \in MemLimits : Insight(meth, lim)

SpecInsight == InsightInit /\ [][InsightNext]_vars

(***************************************************************************)
(* The rasterization of a point cloud (helpers.dsm, helpers.rasterize):    *)
(* the points are gridded at resolution 1 as voxels (a scalar step) or as  *)
(* pixels (the z axis undivided), binned with their elevation as feature   *)
(* and squashed along the last axis.                                       *)
(***************************************************************************)
PipelineStepArgs ==
    {[seq |-> FALSE, v |-> Some(1)],
     [seq |-> TRUE, v |-> <<Some(1), Some(1), None>>]}

\* pc.spatial[:,2]
Elevation(data) == [dtype |-> "float", v |-> [p \in 1..Len(data) |-> data[p][Dim]]]

PipelineBinMethods == {"density", "mean", "mode"}

\* the methods of squash, and one it does not have
SquashMethods ==
    {"top", "center", "bottom", "count", "mean", "median", "min", "max", "std", "mode"}

\* the default axis of squash, and the same axis by its number
SquashAxes == {-1, Dim - 1}

Init ==
    /\ spatial \in PointSets(Dim, MaxPts)
    /\ feature = NoFeature
    /\ step = NoStep
    /\ grid = None
    /\ method = ""
    /\ squash_method = ""
    /\ vxl = None
    /\ axis = 0
    /\ raster = None
    /\ mem_limit = NoLimit
    /\ limit_bytes = None
    /\ mem_usage = None
    /\ err = NoError
    /\ pc = "start"

Squash(meth, ax) ==
    /\ pc = "binned"
    /\ LET r == squash(vxl[1], meth, ax)
       IN  /\ raster' = r.raster
           /\ vxl' = Some(r.voxel_grid)
           /\ err' = r.err
           /\ pc' = IF r.err = NoError THEN "squashed" ELSE "failed"
    /\ axis' = ax
    /\ squash_method' = meth
    /\ UNCHANGED <<spatial, feature, step, grid, method, memvars>>

Next ==
    \/ \E st \in PipelineStepArgs : GetGrid(st)
    \/ \E meth \in PipelineBinMethods :
          \E junk \in (IF meth = "mean" THEN Junk ELSE {Num(0)}) :
              Bin(Elevation(spatial), meth, junk)
    \/ \E meth \in SquashMethods, ax \in SquashAxes : Squash(meth, ax)

Spec == Init /\ [][Next]_vars

(***************************************************************************)
(* squash alone, on arbitrary 3-D voxel grids and along every axis.        *)
(***************************************************************************)
VoxelGrids == {a \in Arrays : Len(a.shape) = Dim}

\* the axes of a 3-D voxel grid, and the last axis as -1
AllSquashAxes == (0..(Dim - 1)) \cup {-1}

SquashInit ==
    /\ spatial = <<>>
    /\ feature = NoFeature
    /\ step = NoStep
    /\ grid = None
    /\ method = ""
    /\ squash_method = ""
    /\ vxl \in {Some(a) : a \in VoxelGrids}
    /\ axis = 0
    /\ raster = None
    /\ mem_limit = NoLimit
    /\ limit_bytes = None
    /\ mem_usage = None
    /\ err = NoError
    /\ pc = "binned"

SquashNext == \E meth \in SquashMethods, ax \in AllSquashAxes : Squash(meth, ax)

SpecSquash == SquashInit /\ [][SquashNext]_vars

(***************************************************************************)
(* Properties of get_grid, checked under SpecGrid.                         *)
(***************************************************************************)
\* the step get_grid was called with, on axis i
StepAt(i) == IF step.seq THEN step.v[i] ELSE step.v

AxisMin(i) == SetMin({spatial[p][i] : p \in 1..Len(spatial)})

AxisMax(i) == SetMax({spatial[p][i] : p \in 1..Len(spatial)})

Last(e) == e[Len(e)]

StrictlyIncreasing(e) == \A k \in 1..(Len(e) - 1) : e[k] < e[k + 1]

\* axis i of the returned grid was divided by a positive step
Divided(i) == StepAt(i) # None /\ StepAt(i)[1] > 0

\* C1: every divided axis of the grid has b + 1 edges, b being the quotient
\* of (amax - amin) by the step rounded toward zero (b*step <= amax - amin
\* < (b+1)*step); the edges start at amin, are spaced by step, end at
\* amin + b*step and are strictly increasing.
C1_DividedAxisEdges ==
    pc = "gridded" =>
        \A i \in 1..Len(grid[1]) :
            Divided(i) =>
                LET e == grid[1][i]
                    s == StepAt(i)[1]
                    b == Len(e) - 1
                IN  /\ b >= 0
                    /\ b * s <= AxisMax(i) - AxisMin(i)
                    /\ AxisMax(i) - AxisMin(i) < (b + 1) * s
                    /\ e[1] = AxisMin(i)
                    /\ \A k \in 1..b : e[k + 1] - e[k] = s
                    /\ Last(e) = AxisMin(i) + b * s
                    /\ StrictlyIncreasing(e)

\* an axis of extent 3 divided by step 2: one bin, the edges <<amin, amin + 2>>
C1_Witness ==
    /\ pc = "gridded"
    /\ \E i \in 1..Len(grid[1]) :
          /\ StepAt(i) = Some(2)
          /\ AxisMax(i) - AxisMin(i) = 3
          /\ Len(grid[1][i]) = 2

\* C2: a successful get_grid returns one edge array per dimension of the
\* points; a step sequence whose length differs from that dimension fails
\* with the ValueError of the dimension mismatch and returns no grid.
C2_AxisCount ==
    /\ pc = "gridded" => Len(grid[1]) = NDim(spatial)
    /\ (pc # "start" /\ step.seq /\ Len(step.v) # NDim(spatial)) =>
          /\ pc = "failed"
          /\ err = DimensionMismatch
          /\ grid = None

\* a step sequence longer than the dimension of the points has failed
C2_Witness ==
    /\ pc = "failed"
    /\ step.seq
    /\ Len(step.v) > NDim(spatial)
    /\ err.type = "ValueError"

\* the step get_grid was called with holds a number <= 0 (as the scalar, or
\* as an element of a sequence with one step per axis)
HasNonPositiveStep ==
    IF step.seq
    THEN /\ Len(step.v) = NDim(spatial)
         /\ \E i \in 1..Len(step.v) : step.v[i] # None /\ step.v[i][1] <= 0
    ELSE step.v # None /\ step.v[1] <= 0

\* C3: get_grid fails with the ValueError of the invalid step for every
\* non-positive step value, negative or zero, given as a scalar or as an
\* element of a per-axis sequence.
C3_NonPositiveStepFails ==
    (pc # "start" /\ HasNonPositiveStep) =>
        /\ pc = "failed"
        /\ err = InvalidStep
        /\ grid = None

\* C6 as stated: on every divided axis of a grid built from the point set
\* the last edge lies beyond the data maximum.
C6_LastEdgeBeyondMax ==
    pc = "gridded" =>
        \A i \in 1..Len(grid[1]) :
            Divided(i) => Last(grid[1][i]) > AxisMax(i)

\* C6 amended: on every divided axis the last edge does not exceed the data
\* maximum and is less than one step below it (amax - step < last <= amax),
\* and it equals amax exactly when amax - amin is a multiple of the step; a
\* point above the last edge then lies in no bin of the axis.
C6_LastEdgeWithinData ==
    pc = "gridded" =>
        \A i \in 1..Len(grid[1]) :
            Divided(i) =>
                LET e == grid[1][i]
                    s == StepAt(i)[1]
                IN  /\ Last(e) <= AxisMax(i)
                    /\ AxisMax(i) - s < Last(e)
                    /\ (Last(e) = AxisMax(i)) <=>
                          ((AxisMax(i) - AxisMin(i)) % s = 0)
                    /\ \A p \in 1..Len(spatial) :
                          spatial[p][i] > Last(e) =>
                              ~ \E k \in 1..(Len(e) - 1) :
                                    e[k] <= spatial[p][i] /\ spatial[p][i] <= e[k + 1]

\* a divided axis whose last edge is below the data maximum, with a bin
C6_Witness ==
    /\ pc = "gridded"
    /\ \E i \in 1..Len(grid[1]) :
          /\ Divided(i)
          /\ Len(grid[1][i]) >= 2
          /\ Last(grid[1][i]) < AxisMax(i)

\* C7: an axis whose step is None gets exactly the two edges
\* <<amin, amax + 1>>: one bin holding every point of the set on that axis,
\* whatever the steps of the other axes.
C7_UndividedAxis ==
    pc = "gridded" =>
        \A i \in 1..Len(grid[1]) :
            StepAt(i) = None =>
                /\ grid[1][i] = <<AxisMin(i), AxisMax(i) + 1>>
                /\ \A p \in 1..Len(spatial) :
                      /\ grid[1][i][1] <= spatial[p][i]
                      /\ spatial[p][i] < grid[1][i][2]

\* an undivided axis of extent 3 beside an axis divided into one bin
C7_Witness ==
    /\ pc = "gridded"
    /\ step.seq
    /\ \E i, j \in 1..Len(grid[1]) :
          /\ StepAt(i) = None
          /\ AxisMax(i) - AxisMin(i) = 3
          /\ Divided(j)
          /\ Len(grid[1][j]) = 2

(***************************************************************************)
(* Properties of bin, checked under SpecBin.  A cell is named by its       *)
(* geographic bin indices c = <<i, j, k>> (from 0).  Bin k of an axis is   *)
(* the half-open interval [e[k], e[k+1]), the upper bound of the last bin  *)
(* of the axis being inclusive.                                            *)
(***************************************************************************)
InBin(e, k, x) ==
    /\ e[k] <= x
    /\ x < e[k + 1] \/ (k = Len(e) - 1 /\ x = e[k + 1])

\* the points (row numbers) that fall into cell c of the grid
PointsInCell(c) ==
    {p \in 1..Len(spatial) :
        \A i \in 1..Len(c) : InBin(grid[1][i], c[i] + 1, spatial[p][i])}

\* the cells of the grid, in geographic order
Cells == Idx(GridShape(grid[1]))

\* where the returned array holds cell c: <<ny - 1 - j, i, k>>
Stored(c) ==
    [a \in 1..Len(c) |->
        IF a = 1 THEN Len(grid[1][2]) - 2 - c[2]
        ELSE IF a = 2 THEN c[1]
        ELSE c[a]]

\* the shape of the returned array: <<ny, nx, nz>>
StoredShape == SwapShape(GridShape(grid[1]))

\* the points inside the half-open extent of the grid on every axis
PointsInExtent ==
    {p \in 1..Len(spatial) :
        \A i \in 1..Len(grid[1]) :
            grid[1][i][1] <= spatial[p][i] /\ spatial[p][i] < Last(grid[1][i])}

RECURSIVE SumCells(_, _)
\* the sum of the (integer) values of the cells S of array data d
SumCells(S, d) ==
    IF S = {} THEN 0
    ELSE LET c == CHOOSE x \in S : TRUE
         IN  d[c][1] + SumCells(S \ {c}, d)

\* C5: the sum of all cells of a density grid is the number of points p
\* with edges[i][0] <= p[i] < edges[i][last] on every axis i, so that a
\* point on the outermost upper edge of an axis is in no cell.
C5_DensitySumHalfOpen ==
    (pc = "binned" /\ method = "density") =>
        SumCells(Idx(vxl[1].shape), vxl[1].data) = Cardinality(PointsInExtent)

FeatureSum(S) == SumOver(S, feature.v)

\* C9: for every numeric feature vector, the mean grid holds in every cell
\* with points the sum of their feature values divided by their number, and
\* is masked exactly where the density grid is (no point in the cell).
C9_MeanIsSumOverCount ==
    (pc = "binned" /\ method = "mean") =>
        \A c \in Cells :
            /\ vxl[1].mask[Stored(c)] <=> (PointsInCell(c) = {})
            /\ PointsInCell(c) # {} =>
                  vxl[1].data[Stored(c)] =
                      Frac(FeatureSum(PointsInCell(c)), Cardinality(PointsInCell(c)))

\* the number of points of cell c that hold feature value v
ValueCount(c, v) == Cardinality({p \in PointsInCell(c) : feature.v[p] = v})

BinCalled == pc \in {"binned", "failed"} /\ method # ""

NBins(i) == Len(grid[1][i]) - 1

GeoReduction(junk) ==
    IF method = "density" THEN bin_density(grid[1], spatial)
    ELSE IF method = "mean" THEN bin_mean(grid[1], spatial, feature, junk)
    ELSE bin_mode(grid[1], spatial, feature)

\* C13: for density, mean and mode the value and the mask of the cell with
\* geographic bin indices (x=i, y=j, z=k) are found in the returned array
\* at [ny-1-j, i, k], ny being the number of y bins.
C13_StorageOrderImage ==
    pc = "binned" =>
        \E junk \in Junk :
            \A i \in 0..(NBins(1) - 1), j \in 0..(NBins(2) - 1), k \in 0..(NBins(3) - 1) :
                /\ vxl[1].data[<<NBins(2) - 1 - j, i, k>>] = GeoReduction(junk).data[<<i, j, k>>]
                /\ vxl[1].mask[<<NBins(2) - 1 - j, i, k>>] = GeoReduction(junk).mask[<<i, j, k>>]

\* a returned grid of two rows whose southern cell (y bin 0, the last row)
\* holds points and whose northern cell (y bin 1, the first row) is empty
C13_Witness ==
    /\ pc = "binned"
    /\ method \in {"mean", "mode"}
    /\ NBins(1) = 1
    /\ NBins(2) = 2
    /\ NBins(3) >= 1
    /\ vxl[1].mask[<<0, 0, 0>>]
    /\ ~ vxl[1].mask[<<1, 0, 0>>]
    /\ \E p \in 1..Len(spatial) : spatial[p][2] = 0

(***************************************************************************)
(* Properties of the coordinate transforms, checked under SpecCoord.       *)
(***************************************************************************)
\* C14: _np_to_geo_coordinate(_geo_to_np_coordinate(x)) = x and
\* _geo_to_np_coordinate(_np_to_geo_coordinate(x)) = x for every 2-D and
\* 3-D array x, square or not.
C14_RoundTrip ==
    pc \in {"np_geo", "geo_np"} => raster[1] = vxl[1]

\* a non-square 3-D array with two different cells, taken to storage order
\* and back
C14_Witness ==
    /\ pc = "np_geo"
    /\ Len(vxl[1].shape) = Dim
    /\ vxl[1].shape[1] # vxl[1].shape[2]
    /\ \E ix, iy \in Idx(vxl[1].shape) : vxl[1].data[ix] # vxl[1].data[iy]
    /\ raster[1] = vxl[1]

\* C15: for a 2-D or 3-D array a of shape (nx, ny[, nz]) the result of
\* _geo_to_np_coordinate has the shape (ny, nx[, nz]) and holds a[i, j(, k)]
\* at [ny-1-j, i(, k)]: the first two axes swapped, the new first axis
\* reversed, the index along a trailing axis unchanged.
C15_SwapThenFlip ==
    pc = "np" =>
        LET a == vxl[1]
            out == raster[1]
            nx == a.shape[1]
            ny == a.shape[2]
        IN  /\ Len(out.shape) = Len(a.shape)
            /\ out.shape[1] = ny
            /\ out.shape[2] = nx
            /\ \A d \in 3..Len(a.shape) : out.shape[d] = a.shape[d]
            /\ DOMAIN out.data = Idx(out.shape)
            /\ DOMAIN out.mask = Idx(out.shape)
            /\ \A ix \in Idx(a.shape) :
                  LET to == [d \in 1..Len(ix) |->
                               IF d = 1 THEN ny - 1 - ix[2]
                               ELSE IF d = 2 THEN ix[1]
                               ELSE ix[d]]
                  IN  /\ out.data[to] = a.data[ix]
                      /\ out.mask[to] = a.mask[ix]

\* a 3-D array of shape (1, 3, 2) taken to storage order, whose cell
\* [0, 0, 1] alone holds a 1: the result holds it at [2, 0, 1]
C15_Witness ==
    /\ pc = "np"
    /\ vxl[1].shape = <<1, 3, 2>>
    /\ \A ix \in Idx(vxl[1].shape) :
          vxl[1].data[ix] = (IF ix = <<0, 0, 1>> THEN Num(1) ELSE Num(0))
    /\ raster[1].shape = <<3, 1, 2>>
    /\ raster[1].data[<<2, 0, 1>>] = Num(1)

(***************************************************************************)
(* Properties of insight, checked under SpecInsight.                       *)
(***************************************************************************)
\* insight has been called with a supported method and a limit it could
\* convert (none, a number, or a size string that was understood)
InsightCompared ==
    /\ pc \in {"insight", "failed"}
    /\ method \in {"density", "mean", "mode"}
    /\ err \notin {MalformedSizeString, FloatParseError}

\* C16: insight fails with MemoryBudgetExceeded whenever a limit is given
\* (any value but None, 0 included, as a number or as a size string) and
\* the estimate is strictly greater than the limit, for density, mean and
\* mode; otherwise it returns the estimate.
C16_FailsAboveAnyLimit ==
    InsightCompared =>
        IF mem_limit.type # "none" /\ BigGreater(Estimate(grid[1], method), limit_bytes[1])
        THEN pc = "failed" /\ err = MemoryBudgetExceeded /\ mem_usage = None
        ELSE pc = "insight" /\ err = NoError /\ mem_usage = Some(Estimate(grid[1], method))

\* str is d digits, then sp spaces, then the suffix of entry i of bytes_count
SizeStringAs(str, d, sp, i) ==
    /\ Len(str) = d + sp + Len(bytes_count[i].k)
    /\ \A c \in 1..d : IsDigit(str[c])
    /\ \A c \in (d + 1)..(d + sp) : str[c] = " "
    /\ EndsWith(str, bytes_count[i].k)

\* C17: a string limit made of a number followed by KB, MB or GB, with or
\* without a space between them, is converted to number * 1024, 1024^2 or
\* 1024^3 bytes; every other string makes insight fail with
\* MalformedSizeString (IOError) and with no other error.
C17_SizeStrings ==
    (pc # "start" /\ mem_limit.type = "str") =>
        LET str == mem_limit.s
        IN  IF \E d \in 1..Len(str), sp \in 0..1, i \in 1..Len(bytes_count) :
                  SizeStringAs(str, d, sp, i)
            THEN \A d \in 1..Len(str), sp \in 0..1, i \in 1..Len(bytes_count) :
                    SizeStringAs(str, d, sp, i) =>
                        /\ err \notin {MalformedSizeString, FloatParseError}
                        /\ limit_bytes =
                              Some(Times1024(BigOf(Decimal(SubSeq(str, 1, d))),
                                             bytes_count[i].v))
            ELSE pc = "failed" /\ err = MalformedSizeString /\ limit_bytes = None

(***************************************************************************)
(* Properties of the rasterization, checked under Spec.                    *)
(***************************************************************************)
\* the points (0,0,0), (0,0,1), (0,0,2) gridded with step 1 on all axes,
\* binned by density and squashed by count along axis 2
ColumnScenario ==
    /\ pc = "squashed"
    /\ spatial = <<<<0, 0, 0>>, <<0, 0, 1>>, <<0, 0, 2>>>>
    /\ step = [seq |-> FALSE, v |-> Some(1)]
    /\ method = "density"
    /\ squash_method = "count"
    /\ axis = 2

\* C4 as stated: in the scenario the voxel grid is one (x=0, y=0) column of
\* 3 valid z-cells of density 1 each, and the count raster holds 3 at that
\* column.
C4_ScenarioColumnOfThree ==
    ColumnScenario =>
        /\ vxl[1].shape = <<1, 1, 3>>
        /\ \A c \in Idx(vxl[1].shape) : ~ vxl[1].mask[c] /\ vxl[1].data[c] = Num(1)
        /\ raster[1].shape = <<1, 1>>
        /\ \A o \in Idx(raster[1].shape) : raster[1].data[o] = Num(3)

\* C4, amended: in the scenario get_grid returns the edges [0], [0] and
\* [0, 1, 2], that is no bin on x, no bin on y and two bins on z; the voxel
\* grid has the shape (0, 0, 2) and holds no cell, and the count raster has
\* the shape (0, 0) and holds no cell.
C4_ScenarioNoColumn ==
    ColumnScenario =>
        /\ grid[1] = <<<<0>>, <<0>>, <<0, 1, 2>>>>
        /\ vxl[1].shape = <<0, 0, 2>>
        /\ Idx(vxl[1].shape) = {}
        /\ DOMAIN vxl[1].data = {}
        /\ raster[1].shape = <<0, 0>>
        /\ DOMAIN raster[1].data = {}

C4_Witness ==
    /\ ColumnScenario
    /\ err = NoError
    /\ Len(grid[1][3]) = 3

\* C18: in every run of the pipeline bin is invoked on a grid only after
\* insight has been invoked on that grid and has returned without failure.
C18_InsightBeforeBin ==
    (pc \in {"binned", "squashed"} \/ (pc = "failed" /\ method # "")) =>
        mem_usage # None

(***************************************************************************)
(* Properties of squash, checked under SpecSquash.  The column of output   *)
(* cell o holds the voxels whose index, the squashed axis left out, is o.  *)
(***************************************************************************)
\* the squashed axis, from 1
SquashedAxis == IF axis < 0 THEN axis + Len(vxl[1].shape) + 1 ELSE axis + 1

\* the index of the voxel at position t of the column of output cell o
ColumnCell(o, t) ==
    [d \in 1..Len(vxl[1].shape) |->
        IF d < SquashedAxis THEN o[d]
        ELSE IF d = SquashedAxis THEN t
        ELSE o[d - 1]]

\* the positions of the valid (non-masked) voxels of the column of o
ValidPositions(o) ==
    {t \in 0..(vxl[1].shape[SquashedAxis] - 1) : ~ vxl[1].mask[ColumnCell(o, t)]}

C20_SingleValidCell ==
    (pc = "squashed" /\ squash_method \in {"top", "center", "bottom"}) =>
        \A o \in Idx(raster[1].shape) :
            \A t \in ValidPositions(o) :
                ValidPositions(o) = {t} =>
                    /\ ~ raster[1].mask[o]
                    /\ raster[1].data[o] = vxl[1].data[ColumnCell(o, t)]

\* squash by 'center' along the last axis given as -1: a column of three
\* voxels whose only valid voxel is the last, holding 1
C20_Witness ==
    /\ pc = "squashed"
    /\ squash_method = "center"
    /\ axis = -1
    /\ vxl[1].shape[Dim] = 3
    /\ \E o \in Idx(raster[1].shape) :
          /\ ValidPositions(o) = {2}
          /\ vxl[1].data[ColumnCell(o, 2)] = Num(1)
          /\ raster[1].data[o] = Num(1)
          /\ ~ raster[1].mask[o]

\* C21: squash by 'count' gives every output cell the number of
\* non-masked voxels of its column; a column without valid voxel gives 0,
\* and no output cell is masked.
C21_CountValid ==
    (pc = "squashed" /\ squash_method = "count") =>
        /\ raster[1].shape = RemoveAt(vxl[1].shape, SquashedAxis)
        /\ \A o \in Idx(raster[1].shape) :
              /\ raster[1].data[o] = Num(Cardinality(ValidPositions(o)))
              /\ ~ raster[1].mask[o]
              /\ ValidPositions(o) = {} => raster[1].data[o] = Num(0)

\* a count raster with a column of two valid voxels out of three and a
\* column without valid voxel
C21_Witness ==
    /\ pc = "squashed"
    /\ squash_method = "count"
    /\ \E o, e \in Idx(raster[1].shape) :
          /\ Cardinality(ValidPositions(o)) = 2
          /\ vxl[1].shape[SquashedAxis] = 3
          /\ raster[1].data[o] = Num(2)
          /\ ValidPositions(e) = {}
          /\ raster[1].data[e] = Num(0)
          /\ ~ raster[1].mask[e]

\* the values of the valid voxels of the column of o, by position
ColumnValues(o) ==
    LET ts == SortedSeq(ValidPositions(o))
    IN  [k \in 1..Len(ts) |-> vxl[1].data[ColumnCell(o, ts[k])]]

CorePts == 2

CoreLimits ==
    {NoLimit, NumberLimit(0), NumberLimit(MaxLimit),
     StrLimit(<<"1", "K", "B">>), StrLimit(<<"x">>)}

CoreInit ==
    /\ spatial \in PointSets(Dim, CorePts)
    /\ feature = Elevation(spatial)
    /\ step = NoStep
    /\ grid = None
    /\ method = ""
    /\ squash_method = ""
    /\ vxl = None
    /\ axis = 0
    /\ raster = None
    /\ mem_limit = NoLimit
    /\ limit_bytes = None
    /\ mem_usage = None
    /\ err = NoError
    /\ pc = "start"

CoreInsight(meth, lim) ==
    /\ pc = "gridded"
    /\ mem_limit = NoLimit
    /\ mem_usage = None
    /\ LET r == insight(EdgeCounts(grid[1]), meth, lim)
       IN  /\ limit_bytes' = r.limit
           /\ mem_usage' = r.mem_usage
           /\ err' = r.err
           /\ pc' = IF r.err = NoError THEN "gridded" ELSE "failed"
    /\ mem_limit' = lim
    /\ UNCHANGED <<spatial, feature, step, grid, method, vxl, squash_method, axis, raster>>

CoreNext ==
    \/ \E st \in PipelineStepArgs : GetGrid(st)
    \/ \E meth \in BinMethods, lim \in CoreLimits : CoreInsight(meth, lim)
    \/ \E meth \in BinMethods :
          \E junk \in (IF meth = "mean" THEN Junk ELSE {Num(0)}) :
              Bin(feature, meth, junk)
    \/ \E meth \in SquashMethods : Squash(meth, -1)

SpecCore == CoreInit /\ [][CoreNext]_vars

(***************************************************************************)
(* Properties of the method dispatch.                                      *)
(***************************************************************************)
\* C23: a method that the dispatch does not know is rejected with the
\* UnsupportedMethod error that bin raises, and nothing is returned: by
\* squash for a method outside {top, center, bottom, count, mean, median,
\* min, max, std}, and by insight for a method outside {density, mean,
\* mode}.
C23_UnknownMethodUnsupported ==
    /\ (pc \in {"squashed", "failed"}
          /\ squash_method \notin {"", "top", "center", "bottom", "count", "mean",
                                   "median", "min", "max", "std"}) =>
            pc = "failed" /\ err = UnsupportedMethod /\ raster = None
    /\ (pc \in {"insight", "failed"}
          /\ squash_method = ""
          /\ mem_limit.type # "str"
          /\ method \notin {"", "density", "mean", "mode"}) =>
            pc = "failed" /\ err = UnsupportedMethod /\ mem_usage = None

(***************************************************************************)
(* Properties of squash by 'center'.                                       *)
(***************************************************************************)
\* the position of rank k (from 0) among the valid positions of the column
\* of output cell o
PositionOfRank(o, k) ==
    CHOOSE t \in ValidPositions(o) :
        Cardinality({u \in ValidPositions(o) : u < t}) = k

\* the median of the valid positions of the column of o, truncated: the
\* middle one, or half the sum of the two middle ones rounded down
TruncatedMedianPosition(o) ==
    LET n == Cardinality(ValidPositions(o))
    IN  (PositionOfRank(o, (n - 1) \div 2) + PositionOfRank(o, n \div 2)) \div 2

\* C25: squash by 'center' gives every output cell whose column has valid
\* voxels the voxel at the truncated median of the positions of the valid
\* voxels: its value, and its mask, so that the output cell is masked when
\* the voxel at that position is masked although the column has valid
\* voxels.
C25_CenterTruncatedMedian ==
    (pc = "squashed" /\ squash_method = "center") =>
        \A o \in Idx(raster[1].shape) :
            ValidPositions(o) # {} =>
                /\ raster[1].mask[o] = vxl[1].mask[ColumnCell(o, TruncatedMedianPosition(o))]
                /\ raster[1].data[o] = vxl[1].data[ColumnCell(o, TruncatedMedianPosition(o))]

\* squash by 'center': a column valid at positions 0 and 2 only gives a
\* masked cell, position 1 being masked, beside a column valid at positions
\* 0 and 1 that gives the value at position 0
C25_Witness ==
    /\ pc = "squashed"
    /\ squash_method = "center"
    /\ \E o, e \in Idx(raster[1].shape) :
          /\ ValidPositions(o) = {0, 2}
          /\ raster[1].mask[o]
          /\ ValidPositions(e) = {0, 1}
          /\ vxl[1].data[ColumnCell(e, 0)] # vxl[1].data[ColumnCell(e, 1)]
          /\ ~ raster[1].mask[e]
          /\ raster[1].data[e] = vxl[1].data[ColumnCell(e, 0)]

(***************************************************************************)
(* Properties of the estimate of insight.                                  *)
(***************************************************************************)
\* the bytes of one cell: 8 for a buffer of values or an accumulator, 1 for
\* a mask or the winner buffer
CellCost(meth) ==
    IF meth = "density" THEN 8 + 8 + 1
    ELSE IF meth = "mean" THEN 8 + 8 + 1 + 8 + 1
    ELSE 8 + 8 + (IF 8 + 1 >= 8 + 1 THEN 8 + 1 ELSE 8 + 1)

\* C26: the estimate insight returns is the number of cells of the grid,
\* the product over the axes of the number of edges less one, times the
\* bytes of one cell: 8+8+1 for density, 8+8+1+8+1 for mean and
\* 8+8+max(8+1, 8+1) for mode.
C26_EstimateIsCellsTimesCost ==
    (pc = "insight" /\ squash_method = "") =>
        mem_usage =
            Some(BigMul(BigMul(BigMul(BigMul(BigOf(1), grid[1][1] - 1),
                                      grid[1][2] - 1),
                               grid[1][3] - 1),
                        CellCost(method)))

C27_EveryAxisHasABin ==
    pc = "gridded" =>
        /\ \A i \in 1..Len(grid[1]) : Divided(i) => Len(grid[1][i]) >= 2
        /\ (\A i \in 1..Len(grid[1]) : Divided(i)) =>
              Product([i \in 1..Len(grid[1]) |-> Len(grid[1][i]) - 1]) >= 1

====
